---------------------------- MODULE Spec2Model ----------------------------
(***************************************************************************)
(* Model of alphabet_recogniser/tensorboard_utils.py: the checkpoint       *)
(* writer (save_model), the figure-to-dashboard bridge                     *)
(* (add_fig_to_tensorboard), the periodic report dispatcher                *)
(* (add_logs_to_tensorboard) and the three renderers (log_conf_matrix,     *)
(* log_TPR_PPV_F1_bars, log_ROC_AUC).                                      *)
(*                                                                         *)
(* Representation.                                                         *)
(*  - A Python value that may be None is a tuple: <<>> is None, <<v>> is v.*)
(*  - A float is a record [nan, v]: v counts units of 1/One, nan marks     *)
(*    NaN.  Positions on the x axis of the bar chart count eighths.        *)
(*  - The file system is a function from path strings to file contents.    *)
(*  - The dashboard (Config.writer) is the sequence of image entries       *)
(*    appended to it; pyplot's registry of open figures is a set of        *)
(*    figure numbers.                                                      *)
(***************************************************************************)
EXTENDS Integers, Sequences, FiniteSets, TLC

VARIABLES
    config,   \* the Config singleton: args and derived fields
    files,    \* file system under m_save_path: path -> serialized model
    writer,   \* Config.writer: sequence of [tag, img, step] image entries
    figs,     \* pyplot: numbers of the figures that are open
    nfigs,    \* pyplot: number of figures created so far
    epoch,    \* training loop: the epoch the next dispatch is called with
    M,        \* the metrics holder, as it is after the last call
    calls,    \* number of direct calls made (bounded by MaxCalls)
    last      \* observation of the last call: its arguments and results

vars == <<config, files, writer, figs, nfigs, epoch, M, calls, last>>

---------------------------------------------------------------------------
(* Bounds of the model *)

MaxEpochs == 5      \* config.epoch_num ranges over 1..MaxEpochs
MaxFreq == 3        \* each t_*_freq ranges over 1..MaxFreq
MaxClasses == 2     \* the class table holds 1..MaxClasses classes
MaxCount == 2       \* confusion-matrix cells range over 0..MaxCount
MaxAcc == 1         \* save_model: acc ranges over 0..MaxAcc
MaxNets == 2        \* save_model: distinct model contents 1..MaxNets
MaxCalls == 2       \* direct calls of save_model / of the renderers
Resolution == 10    \* One = (GridN - 1) * Resolution units per 1.0

---------------------------------------------------------------------------
(* Python values *)

None == <<>>
Some(v) == <<v>>
TheVal(o) == o[1]

RECURSIVE SumSeq(_)
SumSeq(s) == IF s = <<>> THEN 0 ELSE Head(s) + SumSeq(Tail(s))

---------------------------------------------------------------------------
(* Config.get_instance() *)

ClassChars == <<"A", "B", "C", "D">>

\* config.classes: key -> {'chr': ...}; keys are 1..n in insertion order
ClassTable(n) == [k \in 1..n |-> [chr |-> ClassChars[((k - 1) % Len(ClassChars)) + 1]]]

BaseConfig ==
    [ m_save_path          |-> None,
      log_pref             |-> "run",
      train_size_per_class |-> None,
      test_size_per_class  |-> None,
      epoch_num            |-> 1,
      t_cm_freq            |-> 1,
      t_precision_bar_freq |-> 1,
      t_roc_auc_freq       |-> 1,
      classes              |-> ClassTable(1) ]

---------------------------------------------------------------------------
(* save_model *)

\* the "{x if x is not None else 'All'}" fields of the file name
SizeField(size) == IF size # None THEN ToString(TheVal(size)) ELSE "All"

\* os.path.join(m_save_path, f"...") for a relative file name
SavePath(cfg, net, acc, ep) ==
    TheVal(cfg.m_save_path) \o "/" \o
    cfg.log_pref
    \o "_acc[" \o ToString(acc) \o "]"
    \o "_e[" \o ToString(ep) \o "]"
    \o "_c[" \o ToString(net.num_classes) \o "]"
    \o "_tr_s[" \o SizeField(cfg.train_size_per_class) \o "]"
    \o "_t_s[" \o SizeField(cfg.test_size_per_class) \o "]"
    \o ".model"

\* torch.save(net, save_path)
TorchSave(fs, net, path) == [p \in DOMAIN fs \cup {path} |-> IF p = path THEN net ELSE fs[p]]

\* faulty variant: the existence check of line 45 is dropped
save_model_NoExistsCheck(fs, cfg, net, acc, ep) ==
    IF cfg.m_save_path = None
    THEN fs
    ELSE TorchSave(fs, net, SavePath(cfg, net, acc, ep))

\* faulty variant: the None check of line 32 is dropped, None taken as "."
save_model_NoNoneCheck(fs, cfg, net, acc, ep) ==
    LET c == IF cfg.m_save_path = None THEN [cfg EXCEPT !.m_save_path = Some(".")] ELSE cfg
        save_path == SavePath(c, net, acc, ep)
    IN  IF save_path \notin DOMAIN fs THEN TorchSave(fs, net, save_path) ELSE fs

\* the file system after save_model(net, acc, epoch)
save_model(fs, cfg, net, acc, ep) ==
    IF cfg.m_save_path = None
    THEN fs
    ELSE LET save_path == SavePath(cfg, net, acc, ep)
         IN  IF save_path \notin DOMAIN fs
             THEN TorchSave(fs, net, save_path)
             ELSE fs

---------------------------------------------------------------------------
(* Floats: v counts units of 1/One *)

GridN == 100                       \* np.linspace(0, 1, 100)
One == (GridN - 1) * Resolution    \* 1.0
F(n) == [nan |-> FALSE, v |-> n]
NaN == [nan |-> TRUE, v |-> 0]

---------------------------------------------------------------------------
(* pyplot and the dashboard.  A world w is [writer, figs, nfigs]. *)

\* plt.subplots(...): a new figure, numbered nfigs + 1, is opened
Subplots(w) == [w EXCEPT !.nfigs = @ + 1, !.figs = @ \cup {w.nfigs + 1}]

\* the pixel buffer drawn from figure fig (lines 89-98)
Pixels(fig) == [drawn_from |-> fig]

\* faulty variant: the figure is never closed
add_fig_to_tensorboard_NoClose(w, fig, tag, step, close) ==
    [w EXCEPT !.writer = Append(@, [tag |-> tag, img |-> Pixels(fig), step |-> step])]

\* faulty variant: the image is filed under step 0 (the default of log())
add_fig_to_tensorboard_StepZero(w, fig, tag, step, close) ==
    [w EXCEPT !.writer = Append(@, [tag |-> tag, img |-> Pixels(fig), step |-> 0]),
              !.figs = IF close THEN @ \ {fig} ELSE @]

add_fig_to_tensorboard(w, fig, tag, step, close) ==
    [w EXCEPT !.writer = Append(@, [tag |-> tag, img |-> Pixels(fig), step |-> step]),
              !.figs = IF close THEN @ \ {fig} ELSE @]

\* the tail shared by the three renderers:
\*   fig, ax = plt.subplots(...); ...; if step is not None: add_fig_to_tensorboard(fig, tag, step)
RenderTo(w, tag, step) ==
    LET w1 == Subplots(w)
        fig == w1.nfigs
    IN  IF step # None
        THEN add_fig_to_tensorboard(w1, fig, tag, TheVal(step), TRUE)
        ELSE w1

---------------------------------------------------------------------------
(* log_conf_matrix *)

\* one cell of cm.astype('float')*10 / cm.sum(axis=1)[:, np.newaxis];
\* counts are non-negative, so a zero row sum meets only zero cells: 0/0
NormalizedCell(c, rowsum) ==
    IF rowsum = 0 THEN NaN ELSE F((c * 10 * One) \div rowsum)

\* np.nan_to_num on one cell
NanToNum(f) == IF f.nan THEN F(0) ELSE f

\* astype('int') on one finite cell
AsInt(f) == f.v \div One

\* lines 108-112: the local name cm and the object M after them
NormalizedCM(m) ==
    [i \in DOMAIN m.cm |->
        [j \in DOMAIN m.cm[i] |->
            AsInt(NanToNum(NormalizedCell(m.cm[i][j], SumSeq(m.cm[i]))))]]

\* faulty variant: the matrix is normalized in place, in the array M.cm
conf_matrix_locals_InPlace(m, normalize) ==
    IF normalize
    THEN [cm |-> NormalizedCM(m), M |-> [m EXCEPT !.cm = NormalizedCM(m)]]
    ELSE [cm |-> m.cm, M |-> m]

\* faulty variant: the scaled cells are rounded up instead of truncated
conf_matrix_locals_RoundUp(m, normalize) ==
    IF normalize
    THEN [cm |-> [i \in DOMAIN m.cm |-> [j \in DOMAIN m.cm[i] |->
                    IF SumSeq(m.cm[i]) = 0 THEN 0
                    ELSE ((m.cm[i][j] * 10 + SumSeq(m.cm[i]) - 1) \div SumSeq(m.cm[i]))]],
          M |-> m]
    ELSE [cm |-> m.cm, M |-> m]

conf_matrix_locals(m, normalize) ==
    IF normalize
    THEN [cm |-> NormalizedCM(m), M |-> m]
    ELSE [cm |-> m.cm, M |-> m]

\* line 135: format(cm[i, j], 'd') if cm[i, j] != 0 else '.'
CellText(c) == IF c # 0 THEN ToString(c) ELSE "."

\* the figure drawn by lines 115-137
ConfMatrixChart(m, classes, normalize) ==
    LET loc == conf_matrix_locals(m, normalize)
    IN  [ kind    |-> "confusion_matrix",
          imshow  |-> loc.M.cm,
          xticks  |-> classes,
          yticks  |-> classes,
          texts   |-> [i \in DOMAIN loc.cm |-> [j \in DOMAIN loc.cm[i] |-> CellText(loc.cm[i][j])]] ]

log_conf_matrix(w, m, classes, step, normalize) == RenderTo(w, "confusion_matrix", step)

---------------------------------------------------------------------------
(* log_TPR_PPV_F1_bars.  Positions and widths count eighths. *)

multiplier == 3
total_width == 6 * multiplier          \* 0.75 * multiplier
el_width == total_width \div 3
BarX(i) == 8 * multiplier * (i - 1)    \* np.arange(0, len(classes) * multiplier, multiplier)

\* rate * 100
Times100(f) == IF f.nan THEN NaN ELSE F(f.v * 100)

\* ax.bar(x - total_width / 2 + el_width * k/2, rates * 100, width=el_width, label=label)
BarContainer(classes, rates, halves, label) ==
    [i \in 1..Len(classes) |->
        [ x      |-> BarX(i) - total_width \div 2 + (el_width * halves) \div 2,
          height |-> Times100(rates[i]),
          width  |-> el_width,
          label  |-> label ]]

\* faulty variant: the precision and F1 series swap places
BarsChart_Swapped(m, classes) ==
    [ kind   |-> "recall/precision/F1",
      xticks |-> classes,
      bars   |-> BarContainer(classes, m.TPR, 1, "Recall")
                 \o BarContainer(classes, m.PPV, 5, "Precision")
                 \o BarContainer(classes, m.F1, 3, "F1 score") ]

\* the figure drawn by lines 152-171; bars in the order they are added
BarsChart(m, classes) ==
    [ kind   |-> "recall/precision/F1",
      xticks |-> classes,
      bars   |-> BarContainer(classes, m.TPR, 1, "Recall")
                 \o BarContainer(classes, m.PPV, 3, "Precision")
                 \o BarContainer(classes, m.F1, 5, "F1 score") ]

log_TPR_PPV_F1_bars(w, m, classes, step) == RenderTo(w, "recall/precision/F1", step)

---------------------------------------------------------------------------
(* log_ROC_AUC.  roc[i] is what sklearn's roc_curve returns for class i:   *)
(* [fpr, tpr], two float sequences of one length, fpr finite and           *)
(* non-decreasing.                                                         *)

\* mean_fpr = np.linspace(0, 1, 100), k = 1..GridN
mean_fpr(k) == (k - 1) * Resolution

\* the last index j of xp with xp[j] <= x (np.interp's binary search)
RECURSIVE LastLE(_, _, _)
LastLE(x, xp, j) ==
    IF j = 0 \/ xp[j].v <= x THEN j ELSE LastLE(x, xp, j - 1)

\* np.interp(x, xp, fp) at one point x
interp(x, xp, fp) ==
    LET n == Len(xp)
        j == LastLE(x, xp, n)
    IN  IF x > xp[n].v THEN fp[n]
        ELSE IF x < xp[1].v THEN fp[1]
        ELSE IF j = n THEN fp[j]
        ELSE IF xp[j].v = x THEN fp[j]
        ELSE IF fp[j].nan \/ fp[j + 1].nan THEN NaN
        ELSE F(fp[j].v + ((fp[j + 1].v - fp[j].v) * (x - xp[j].v)) \div (xp[j + 1].v - xp[j].v))

\* faulty variant: the first value is left as interpolated
interp_tpr_Unpinned(curve) ==
    [k \in 1..GridN |-> interp(mean_fpr(k), curve.fpr, curve.tpr)]

\* lines 190-191: interp(mean_fpr, fpr[i], tpr[i]) with [0] set to 0.0
interp_tpr(curve) ==
    [[k \in 1..GridN |-> interp(mean_fpr(k), curve.fpr, curve.tpr)] EXCEPT ![1] = F(0)]

\* np.mean(interp_tprs, axis=0) at one grid point
MeanAt(tprs, k) ==
    IF \E i \in DOMAIN tprs : tprs[i][k].nan
    THEN NaN
    ELSE F(SumSeq([i \in DOMAIN tprs |-> tprs[i][k].v]) \div Len(tprs))

\* faulty variant: the last value is left as averaged
mean_tpr_Unpinned(roc) ==
    LET interp_tprs == [i \in DOMAIN roc |-> interp_tpr(roc[i])]
    IN  [k \in 1..GridN |-> MeanAt(interp_tprs, k)]

\* lines 201-202: the mean over the classes with [-1] set to 1.0
mean_tpr(roc) ==
    LET interp_tprs == [i \in DOMAIN roc |-> interp_tpr(roc[i])]
    IN  [[k \in 1..GridN |-> MeanAt(interp_tprs, k)] EXCEPT ![GridN] = F(One)]

\* the figure drawn by lines 195-223 (the AUC labels and the std. dev. band
\* are left out: they need trapezoids and square roots of floats)
RocChart(m, roc, classes) ==
    [ kind     |-> "ROC-AUC",
      curves   |-> [i \in 1..Len(classes) |-> roc[i]],
      mean_fpr |-> [k \in 1..GridN |-> F(mean_fpr(k))],
      mean_tpr |-> mean_tpr([i \in 1..Len(classes) |-> roc[i]]) ]

log_ROC_AUC(w, m, classes, step) == RenderTo(w, "ROC-AUC", step)

---------------------------------------------------------------------------
(* add_logs_to_tensorboard *)

\* line 71
ClassList(cfg) == [k \in DOMAIN cfg.classes |-> cfg.classes[k].chr]

\* faulty variant: epoch 0 is not excluded
can_log_WithEpochZero(cfg, ep, frequence) ==
    (ep % frequence = 0) \/ (ep % frequence # 0 /\ cfg.epoch_num - 1 = ep)

can_log(cfg, ep, frequence) ==
    (ep % frequence = 0 /\ ep # 0) \/ (ep % frequence # 0 /\ cfg.epoch_num - 1 = ep)

\* the world after add_logs_to_tensorboard(metrics, epoch)
add_logs_to_tensorboard(w, cfg, m, ep) ==
    LET classes == ClassList(cfg)
        w1 == IF can_log(cfg, ep, cfg.t_cm_freq)
              THEN log_conf_matrix(w, m, classes, Some(ep), FALSE) ELSE w
        w2 == IF can_log(cfg, ep, cfg.t_precision_bar_freq)
              THEN log_TPR_PPV_F1_bars(w1, m, classes, Some(ep)) ELSE w1
        w3 == IF can_log(cfg, ep, cfg.t_roc_auc_freq)
              THEN log_ROC_AUC(w2, m, classes, Some(ep)) ELSE w2
    IN  w3

\* the metrics object after add_logs_to_tensorboard(metrics, epoch)
add_logs_metrics(cfg, m, ep) ==
    IF can_log(cfg, ep, cfg.t_cm_freq) THEN conf_matrix_locals(m, FALSE).M ELSE m

---------------------------------------------------------------------------
(* Inputs of save_model *)

Nets(n) == [num_classes : {n}, weights : 1..MaxNets]
OldNet(n) == [num_classes |-> n, weights |-> 0]     \* a checkpoint of an earlier run
SaveEpochs(cfg) == {0, cfg.epoch_num - 1}
OptSizes == {None, Some(MaxClasses)}

SaveConfigs ==
    { [BaseConfig EXCEPT !.m_save_path = d, !.train_size_per_class = tr,
                         !.test_size_per_class = ts, !.epoch_num = MaxEpochs,
                         !.classes = ClassTable(MaxClasses)] :
        d \in {None, Some("ckpt")}, tr \in OptSizes, ts \in OptSizes }

EmptyFS == [p \in {} |-> OldNet(1)]

\* the directory is either empty or holds one checkpoint of an earlier run
InitialFiles(cfg) ==
    {EmptyFS} \cup
    { TorchSave(EmptyFS, OldNet(Len(cfg.classes)),
                SavePath([cfg EXCEPT !.m_save_path = Some("ckpt")],
                         OldNet(Len(cfg.classes)), 0, 0)) }

NoCall == [op |-> "none"]

InitSave ==
    /\ config \in SaveConfigs
    /\ files \in InitialFiles(config)
    /\ writer = <<>>
    /\ figs = {}
    /\ nfigs = 0
    /\ epoch = 0
    /\ M = None
    /\ calls = 0
    /\ last = NoCall

SaveModel ==
    /\ calls < MaxCalls
    /\ \E net \in Nets(Len(config.classes)), acc \in 0..MaxAcc, ep \in SaveEpochs(config) :
         /\ files' = save_model(files, config, net, acc, ep)
         /\ last' = [op |-> "save_model", net |-> net, acc |-> acc, epoch |-> ep,
                     path |-> IF config.m_save_path = None THEN None
                              ELSE Some(SavePath(config, net, acc, ep)),
                     before |-> files]
    /\ calls' = calls + 1
    /\ UNCHANGED <<config, writer, figs, nfigs, epoch, M>>

NextSave == SaveModel

SpecSave == InitSave /\ [][NextSave]_vars

---------------------------------------------------------------------------
(* Inputs of the dispatcher and of the renderers *)

\* confusion matrices: row i holds d[i] on the diagonal and o[i] elsewhere
CMs(n) ==
    { [i \in 1..n |-> [j \in 1..n |-> IF i = j THEN d[i] ELSE o[i]]] :
        d \in [1..n -> 0..MaxCount], o \in [1..n -> 0..MaxCount] }

\* (TPR, PPV, F1) of one class
PerClassRates ==
    { <<F(One), F(One), F(One)>>,
      <<F(One), F(One \div 2), F((2 * One) \div 3)>>,
      <<F(One \div 2), F(One \div 4), F(One \div 3)>>,
      <<F(0), NaN, NaN>> }

Rates(n) == [1..n -> PerClassRates]

\* what roc_curve returns for one class
RocCurves ==
    { [fpr |-> <<F(0), F(0), F(One)>>, tpr |-> <<F(0), F(One), F(One)>>],
      [fpr |-> <<F(0), F(0), F(One \div 3), F(One)>>,
       tpr |-> <<F(0), F(One \div 2), F(One \div 2), F(One)>>],
      [fpr |-> <<F(0), F(One)>>, tpr |-> <<F(0), F(One)>>],
      [fpr |-> <<F(0), F(One \div 2), F(One)>>, tpr |-> <<NaN, NaN, NaN>>] }

RocResults(n) == [1..n -> RocCurves]

BaseCM(n) == [i \in 1..n |-> [j \in 1..n |-> IF i = j THEN 1 ELSE 0]]
BaseRates(n) == [i \in 1..n |-> <<F(One), F(One), F(One)>>]
BaseRoc(n) == [i \in 1..n |-> [fpr |-> <<F(0), F(One)>>, tpr |-> <<F(0), F(One)>>]]

\* a metrics holder for n classes, one test sample per class
Metrics(n, cm, rates) ==
    [ cm        |-> cm,
      TPR       |-> [i \in 1..n |-> rates[i][1]],
      PPV       |-> [i \in 1..n |-> rates[i][2]],
      F1        |-> [i \in 1..n |-> rates[i][3]],
      pred_list |-> [i \in 1..n |-> i - 1],
      lbl_list  |-> [i \in 1..n |-> i - 1],
      prob_list |-> [i \in 1..n |-> F(One)] ]

\* the epochs' metrics with the ROC curves sklearn derives from them
Inputs(n) ==
    { [M |-> Metrics(n, cm, BaseRates(n)), roc |-> BaseRoc(n)] : cm \in CMs(n) }
    \cup { [M |-> Metrics(n, BaseCM(n), r), roc |-> BaseRoc(n)] : r \in Rates(n) }
    \cup { [M |-> Metrics(n, BaseCM(n), BaseRates(n)), roc |-> roc] : roc \in RocResults(n) }

\* a few metrics holders: the base one and one with every cell at MaxCount
SmallInputs(n) ==
    { [M |-> Metrics(n, BaseCM(n), BaseRates(n)), roc |-> BaseRoc(n)],
      [M |-> Metrics(n, [i \in 1..n |-> [j \in 1..n |-> MaxCount]],
                     [i \in 1..n |-> <<F(One \div 2), F(One \div 4), F(One \div 3)>>]),
       roc |-> [i \in 1..n |-> [fpr |-> <<F(0), F(0), F(One)>>,
                                tpr |-> <<F(0), F(One), F(One)>>]]] }

Steps == {None} \cup {Some(s) : s \in 0..1}

World == [writer |-> writer, figs |-> figs, nfigs |-> nfigs]

SetWorld(w) ==
    /\ writer' = w.writer
    /\ figs' = w.figs
    /\ nfigs' = w.nfigs

TrainConfigs ==
    { [BaseConfig EXCEPT !.epoch_num = en, !.t_cm_freq = f1, !.t_precision_bar_freq = f2,
                         !.t_roc_auc_freq = f3, !.classes = ClassTable(n)] :
        en \in 1..MaxEpochs, f1 \in 1..MaxFreq, f2 \in 1..MaxFreq, f3 \in 1..MaxFreq,
        n \in 1..MaxClasses }

---------------------------------------------------------------------------
(* The training run: add_logs_to_tensorboard once per epoch *)

Init ==
    /\ config \in TrainConfigs
    /\ files = EmptyFS
    /\ writer = <<>>
    /\ figs = {}
    /\ nfigs = 0
    /\ epoch = 0
    /\ M = None
    /\ calls = 0
    /\ last = NoCall

AddLogsToTensorboard ==
    /\ epoch < config.epoch_num
    /\ \E inp \in SmallInputs(Len(config.classes)) :
         /\ SetWorld(add_logs_to_tensorboard(World, config, inp.M, epoch))
         /\ M' = Some(add_logs_metrics(config, inp.M, epoch))
         /\ last' = [op |-> "add_logs_to_tensorboard", M |-> inp.M, epoch |-> epoch,
                     before |-> World]
    /\ epoch' = epoch + 1
    /\ UNCHANGED <<config, files, calls>>

Next == AddLogsToTensorboard

Spec == Init /\ [][Next]_vars

---------------------------------------------------------------------------
(* The reporting functions called in any order *)

RenderConfigs ==
    { [BaseConfig EXCEPT !.epoch_num = MaxEpochs, !.t_cm_freq = MaxFreq,
                         !.classes = ClassTable(n)] : n \in 1..MaxClasses }

InitRender ==
    /\ config \in RenderConfigs
    /\ files = EmptyFS
    /\ writer = <<>>
    /\ figs = {}
    /\ nfigs = 0
    /\ epoch = 0
    /\ M = None
    /\ calls = 0
    /\ last = NoCall

\* log_conf_matrix(inp.M, classes, step, normalize=normalize) for some input
CallLogConfMatrix(inputs) ==
    /\ \E inp \in inputs, step \in Steps, normalize \in BOOLEAN :
         /\ SetWorld(log_conf_matrix(World, inp.M, ClassList(config), step, normalize))
         /\ M' = Some(conf_matrix_locals(inp.M, normalize).M)
         /\ last' = [op |-> "log_conf_matrix", M |-> inp.M, step |-> step,
                     normalize |-> normalize, before |-> World,
                     chart |-> ConfMatrixChart(inp.M, ClassList(config), normalize)]
    /\ calls' = calls + 1
    /\ UNCHANGED <<config, files, epoch>>

\* log_TPR_PPV_F1_bars(inp.M, classes, step) for some input
CallLogTprPpvF1Bars(inputs) ==
    /\ \E inp \in inputs, step \in Steps :
         /\ SetWorld(log_TPR_PPV_F1_bars(World, inp.M, ClassList(config), step))
         /\ M' = Some(inp.M)
         /\ last' = [op |-> "log_TPR_PPV_F1_bars", M |-> inp.M, step |-> step,
                     before |-> World,
                     chart |-> BarsChart(inp.M, ClassList(config))]
    /\ calls' = calls + 1
    /\ UNCHANGED <<config, files, epoch>>

\* log_ROC_AUC(inp.M, classes, step) for some input
CallLogRocAuc(inputs) ==
    /\ \E inp \in inputs, step \in Steps :
         /\ SetWorld(log_ROC_AUC(World, inp.M, ClassList(config), step))
         /\ M' = Some(inp.M)
         /\ last' = [op |-> "log_ROC_AUC", M |-> inp.M, step |-> step,
                     before |-> World, roc |-> inp.roc,
                     chart |-> RocChart(inp.M, inp.roc, ClassList(config))]
    /\ calls' = calls + 1
    /\ UNCHANGED <<config, files, epoch>>

LogConfMatrix == calls < MaxCalls /\ CallLogConfMatrix(SmallInputs(Len(config.classes)))

LogTprPpvF1Bars == calls < MaxCalls /\ CallLogTprPpvF1Bars(SmallInputs(Len(config.classes)))

LogRocAuc == calls < MaxCalls /\ CallLogRocAuc(SmallInputs(Len(config.classes)))

\* add_logs_to_tensorboard(metrics, e) for any epoch e of the run
AddLogsAnyEpoch ==
    /\ calls < MaxCalls
    /\ \E inp \in SmallInputs(Len(config.classes)), e \in 0..(config.epoch_num - 1) :
         /\ SetWorld(add_logs_to_tensorboard(World, config, inp.M, e))
         /\ M' = Some(add_logs_metrics(config, inp.M, e))
         /\ last' = [op |-> "add_logs_to_tensorboard", M |-> inp.M, epoch |-> e,
                     before |-> World]
    /\ calls' = calls + 1
    /\ UNCHANGED <<config, files, epoch>>

NextRender ==
    \/ LogConfMatrix
    \/ LogTprPpvF1Bars
    \/ LogRocAuc
    \/ AddLogsAnyEpoch

SpecRender == InitRender /\ [][NextRender]_vars

---------------------------------------------------------------------------
(* One renderer called once, on any metrics *)

RenderConfMatrix == calls = 0 /\ CallLogConfMatrix(Inputs(Len(config.classes)))

RenderTprPpvF1Bars == calls = 0 /\ CallLogTprPpvF1Bars(Inputs(Len(config.classes)))

RenderRocAuc == calls = 0 /\ CallLogRocAuc(Inputs(Len(config.classes)))

NextChart ==
    \/ RenderConfMatrix
    \/ RenderTprPpvF1Bars
    \/ RenderRocAuc

SpecChart == InitRender /\ [][NextChart]_vars


---------------------------------------------------------------------------
(* Observations shared by the properties *)

Renderers == {"log_conf_matrix", "log_TPR_PPV_F1_bars", "log_ROC_AUC"}

RendererTag ==
    [ log_conf_matrix     |-> "confusion_matrix",
      log_TPR_PPV_F1_bars |-> "recall/precision/F1",
      log_ROC_AUC         |-> "ROC-AUC" ]

\* the image entries the last call appended to the dashboard
Appended == SubSeq(writer, Len(last.before.writer) + 1, Len(writer))

\* how many of them carry tag, at step e
CountLogged(tag, e) ==
    Cardinality({k \in DOMAIN Appended : Appended[k].tag = tag /\ Appended[k].step = e})

\* the logging condition as section 8 of the specification states it
Due(e, f, epoch_num) == (e % f = 0 /\ e # 0) \/ (e % f # 0 /\ e = epoch_num - 1)

DispatchDone == last.op = "add_logs_to_tensorboard"

---------------------------------------------------------------------------
(* Properties of the dispatcher (specification Spec) *)

\* C1: add_logs_to_tensorboard(metrics, e) invokes the renderer of a chart
\* type (one new figure, one image under its tag at step e) if and only if
\* (e % f == 0 and e != 0) or (e % f != 0 and e == epoch_num - 1), f being
\* that chart type's own frequency.
DispatchLogsIffDue ==
    DispatchDone =>
        LET e == last.epoch
            Is(tag, f) ==
                CountLogged(tag, e) = (IF Due(e, f, config.epoch_num) THEN 1 ELSE 0)
        IN  /\ Is("confusion_matrix", config.t_cm_freq)
            /\ Is("recall/precision/F1", config.t_precision_bar_freq)
            /\ Is("ROC-AUC", config.t_roc_auc_freq)
            /\ Len(Appended) = CountLogged("confusion_matrix", e)
                               + CountLogged("recall/precision/F1", e)
                               + CountLogged("ROC-AUC", e)
            /\ nfigs - last.before.nfigs = Len(Appended)

\* a dispatch before the final epoch that logs the confusion matrix and not the bars
DispatchLogsSomeNotAll ==
    /\ DispatchDone
    /\ last.epoch # config.epoch_num - 1
    /\ CountLogged("confusion_matrix", last.epoch) = 1
    /\ CountLogged("recall/precision/F1", last.epoch) = 0

\* C2: on the final epoch e = epoch_num - 1 of a run every chart type is
\* logged, for every epoch_num >= 1 and every frequency f >= 1.
FinalEpochLogsEveryChart ==
    (DispatchDone /\ last.epoch = config.epoch_num - 1) =>
        /\ CountLogged("confusion_matrix", last.epoch) = 1
        /\ CountLogged("recall/precision/F1", last.epoch) = 1
        /\ CountLogged("ROC-AUC", last.epoch) = 1

\* C10: between two calls of add_logs_to_tensorboard no chart is open, and
\* every chart created so far has been pushed to the dashboard.
NoChartLeftOpen ==
    /\ figs = {}
    /\ Len(writer) = nfigs
    /\ \A k \in DOMAIN writer : writer[k].img = Pixels(k)

\* a run that has rendered at least three charts in its dispatches
ChartsRenderedAndClosed ==
    /\ DispatchDone
    /\ nfigs >= 3
    /\ Len(Appended) >= 1
    /\ figs = {}

---------------------------------------------------------------------------
(* Properties of save_model (specification SpecSave) *)

\* C3: save_model never overwrites: every file that exists keeps its
\* content, and a call whose computed path already exists changes nothing.
SaveNeverOverwrites ==
    [][ /\ \A p \in DOMAIN files : p \in DOMAIN files' /\ files'[p] = files[p]
        /\ (last'.path # None /\ TheVal(last'.path) \in DOMAIN files) => files' = files
      ]_vars

\* a call that met an existing file holding another model at its path
SaveMetExistingFile ==
    /\ last.op = "save_model"
    /\ last.path # None
    /\ TheVal(last.path) \in DOMAIN last.before
    /\ last.before[TheVal(last.path)] # last.net
    /\ files[TheVal(last.path)] = last.before[TheVal(last.path)]

\* C9: with m_save_path None no save_model call changes the set of
\* checkpoint files.
NoSavePathNoWrite ==
    [][ config.m_save_path = None => files' = files ]_vars

\* a save_model call made with m_save_path None
SaveCalledWithoutPath ==
    /\ last.op = "save_model"
    /\ config.m_save_path = None
    /\ last.path = None
    /\ calls = MaxCalls

---------------------------------------------------------------------------
(* Properties of the renderers (specifications SpecChart, SpecRender) *)

\* the number a cell annotation shows; '.' shows 0
CellTexts == {"."} \cup {ToString(k) : k \in 1..10}
CellValue(t) == IF t = "." THEN 0 ELSE CHOOSE k \in 1..10 : ToString(k) = t

\* C4: with normalize on, every annotated cell is a non-negative integer,
\* the cells of a row sum to at most 10, and every cell of a row whose
\* counts sum to 0 is 0.
NormalizedCellsBounded ==
    (last.op = "log_conf_matrix" /\ last.normalize) =>
        LET texts == last.chart.texts
        IN  /\ DOMAIN texts = DOMAIN last.M.cm
            /\ \A i \in DOMAIN texts :
                 /\ DOMAIN texts[i] = DOMAIN last.M.cm[i]
                 /\ \A j \in DOMAIN texts[i] : texts[i][j] \in CellTexts
                 /\ SumSeq([j \in DOMAIN texts[i] |-> CellValue(texts[i][j])]) <= 10
                 /\ SumSeq(last.M.cm[i]) = 0 =>
                        \A j \in DOMAIN texts[i] : texts[i][j] = "."

\* a normalized matrix with a zero row and a row whose cells sum to 1..9
NormalizedWithZeroRowAndRounding ==
    /\ last.op = "log_conf_matrix"
    /\ last.normalize
    /\ \E i \in DOMAIN last.M.cm : SumSeq(last.M.cm[i]) = 0
    /\ \E i \in DOMAIN last.M.cm :
         LET total == SumSeq([j \in DOMAIN last.chart.texts[i] |->
                                CellValue(last.chart.texts[i][j])])
         IN  total >= 1 /\ total <= 9

\* C5: the mean true-positive-rate curve over the 100-point grid starts
\* at 0.0 and ends at 1.0.
MeanTprPinned ==
    last.op = "log_ROC_AUC" =>
        /\ Len(last.chart.mean_tpr) = 100
        /\ last.chart.mean_tpr[1] = F(0)
        /\ last.chart.mean_tpr[100] = F(One)
        /\ last.chart.mean_fpr[1] = F(0)
        /\ last.chart.mean_fpr[100] = F(One)

\* ROC curves of which one interpolates to a non-zero value at 0 and one is NaN
RocWithSteepAndNaNCurve ==
    /\ last.op = "log_ROC_AUC"
    /\ \E i \in DOMAIN last.roc : interp(0, last.roc[i].fpr, last.roc[i].tpr) # F(0)
    /\ \E i \in DOMAIN last.roc : interp(One, last.roc[i].fpr, last.roc[i].tpr) = NaN

\* the bars of the last chart, by index, that stand left of bar k
BarsLeftOf(k) == {b \in DOMAIN last.chart.bars : last.chart.bars[b].x < last.chart.bars[k].x}

\* the height of the bar that stands r-th from the left
HeightAtRank(r) ==
    LET k == CHOOSE b \in DOMAIN last.chart.bars : Cardinality(BarsLeftOf(b)) = r - 1
    IN  last.chart.bars[k].height

Percent(f) == IF f.nan THEN NaN ELSE F(f.v * 100)

\* C6: the bar chart holds 3 * |classes| bars; from left to right they are,
\* class by class, TPR[i]*100, PPV[i]*100, F1[i]*100.
BarsInClassOrder ==
    last.op = "log_TPR_PPV_F1_bars" =>
        LET n == Len(config.classes)
        IN  /\ Len(last.chart.bars) = 3 * n
            /\ \A r \in 1..(3 * n) :
                 Cardinality({b \in DOMAIN last.chart.bars :
                                Cardinality(BarsLeftOf(b)) = r - 1}) = 1
            /\ \A i \in 1..n :
                 /\ HeightAtRank(3 * (i - 1) + 1) = Percent(last.M.TPR[i])
                 /\ HeightAtRank(3 * (i - 1) + 2) = Percent(last.M.PPV[i])
                 /\ HeightAtRank(3 * (i - 1) + 3) = Percent(last.M.F1[i])

\* a bar chart of two or more classes, one with three different rates
BarsOfDistinctRates ==
    /\ last.op = "log_TPR_PPV_F1_bars"
    /\ Len(config.classes) >= 2
    /\ \E i \in DOMAIN last.M.TPR :
         /\ last.M.TPR[i] # last.M.PPV[i]
         /\ last.M.PPV[i] # last.M.F1[i]
         /\ last.M.TPR[i] # last.M.F1[i]
    /\ Len(last.chart.bars) = 3 * Len(config.classes)

\* C7: after a call of the dispatcher or of a renderer the metrics object
\* holds what it held before the call.
MetricsReadOnly ==
    last.op # "none" => M = Some(last.M)

\* a normalizing call whose annotated matrix differs from M.cm
NormalizedDiffersFromCounts ==
    /\ last.op = "log_conf_matrix"
    /\ last.normalize
    /\ last.chart.texts # [i \in DOMAIN last.M.cm |->
                             [j \in DOMAIN last.M.cm[i] |-> CellText(last.M.cm[i][j])]]
    /\ last.chart.imshow = last.M.cm
    /\ M = Some(last.M)

\* the last call opened exactly one figure
OneChartMade == nfigs = last.before.nfigs + 1

\* the last call appended exactly one image, of that figure, under the
\* renderer's tag and the step it was given
OneImageAppended ==
    /\ Len(writer) = Len(last.before.writer) + 1
    /\ SubSeq(writer, 1, Len(last.before.writer)) = last.before.writer
    /\ writer[Len(writer)] = [tag |-> RendererTag[last.op], img |-> Pixels(nfigs),
                              step |-> TheVal(last.step)]

\* C8 as stated: every invocation of a renderer produces one chart and
\* appends one image entry under the renderer's tag and the given step.
EveryRenderAppendsOneImage ==
    last.op \in Renderers => (OneChartMade /\ OneImageAppended)

\* C8 as amended: the image is appended when the step is not None; with
\* step None the chart is produced and the dashboard is left as it was.
RenderAppendsOneImageUnlessStepNone ==
    last.op \in Renderers =>
        /\ OneChartMade
        /\ IF last.step # None THEN OneImageAppended ELSE writer = last.before.writer

\* a renderer called with step 1 on a dashboard that already holds an image
RenderedOntoNonEmptyDashboard ==
    /\ last.op \in Renderers
    /\ last.step = Some(1)
    /\ Len(last.before.writer) >= 1
    /\ Len(writer) = Len(last.before.writer) + 1

===========================================================================
